---- MODULE Spec2Model ----
(***************************************************************************)
(* Process supervisor of apps/desktop/src-tauri/src/main.rs:               *)
(* start_claude_code_server, stop_claude_code_server and                   *)
(* get_claude_code_server_status over ClaudeCodeState.process, a           *)
(* Mutex<Option<CommandChild>>.  Each command runs on its own runtime      *)
(* thread; the MutexGuard lives from the lock() call to the return.        *)
(*                                                                         *)
(* Executable resolver of the same file: find_claude_code_path,            *)
(* check_claude_code_path and the version probe get_claude_version.  The   *)
(* resolver calls share no state with each other or with the supervisor,   *)
(* so one resolver call at a time is modelled.                             *)
(***************************************************************************)
EXTENDS Integers, Sequences, FiniteSets, TLC

\* ---------------------------------------------------------------- bounds
NumThreads == 2
MaxSpawns == 2
MaxOut == 3         \* longest output of `which` / `--version`, in characters

Threads == 1..NumThreads
NoThread == 0

\* ------------------------------------------------------- Option<T> values
None == <<>>
Some(x) == <<x>>
Unwrap(o) == o[1]

IsSome(o) == o # <<>>

\* executable_path values a caller can pass: None, Some(""), Some("/p").
\* The value only shapes the spawned command; no branch of start depends on it.
ExecutablePaths == {None, Some(""), Some("/p")}

\* Lines 34-40: the arguments added to the sidecar command.
CommandArgs(executable_path) ==
    IF IsSome(executable_path) /\ Unwrap(executable_path) # ""
    THEN <<"--claude-path", Unwrap(executable_path)>>
    ELSE <<>>

VARIABLES
    process,    \* ClaudeCodeState.process: the guarded Option<CommandChild>
    lock,       \* the thread holding the Mutex, or NoThread
    pc,         \* each thread's position in its command
    command,    \* each thread's built sidecar command (its arguments)
    child,      \* each thread's local `child`
    entry,      \* the handle each thread saw when it got the lock
    procs,      \* the OS processes spawned so far; the pid is the index
    ret,        \* the last command that returned, and what it returned
    lastChange, \* "start" after a start returned Ok, "stop" after any stop returned
    startsSinceOkStop, \* starts that returned Ok since a stop last returned Ok
    startsSinceStop    \* starts that returned Ok since a stop last returned

vars == <<process, lock, pc, command, child, entry, procs, ret,
          lastChange, startsSinceOkStop, startsSinceStop>>

VARIABLES
    rpc,        \* the resolver call's position
    rop,        \* the resolver command running or last run: "find" / "check"
    rlook,      \* how the lookup of find ended: "err", "fail", "empty", "found";
                \* how the existence test of check ended: "missing", "exists"
    rpath,      \* the path being examined (supplied, or found by the lookup)
    pchild,     \* the probe child of get_claude_version and its OS state
    now,        \* start.elapsed() of the probe, in milliseconds
    polls,      \* try_wait() calls made by the probe
    pkills,     \* kill() calls made by the probe
    pend,       \* the return path the probe took
    pres,       \* the probe's return value, an Option<String>
    rret        \* the ClaudeCodePathResult last returned

rvars == <<rpc, rop, rlook, rpath, pchild, now, polls, pkills, pend, pres, rret>>

allvars == <<vars, rvars>>

NoRet == [op |-> "none", kind |-> "none", pid |-> 0, running |-> FALSE]

\* The supervisor after main() has built it: no handle, nothing running.
SupervisorInit ==
    /\ process = None
    /\ lock = NoThread
    /\ pc = [t \in Threads |-> "idle"]
    /\ command = [t \in Threads |-> None]
    /\ child = [t \in Threads |-> None]
    /\ entry = [t \in Threads |-> None]
    /\ procs = <<>>
    /\ ret = NoRet
    /\ lastChange = "none"
    /\ startsSinceOkStop = 0
    /\ startsSinceStop = 0

\* No resolver command has been issued.
ResolverInit ==
    /\ rpc = "idle"
    /\ rop = "none"
    /\ rlook = "none"
    /\ rpath = <<>>
    /\ pchild = "none"
    /\ now = 0
    /\ polls = 0
    /\ pkills = 0
    /\ pend = "none"
    /\ pres = None
    /\ rret = None

Init == SupervisorInit /\ ResolverInit

Min(a, b) == IF a < b THEN a ELSE b

\* process_guard.is_some() (lines 24 and 70): only the Option is inspected.
\* HandlePresent_Live is the variant that also asks the OS whether the child lives.
HandlePresent_Live(o) == IsSome(o) /\ procs[Unwrap(o)].st = "alive"
HandlePresent(o) == IsSome(o)

\* process_guard.take() (line 58) leaves None behind.
\* Take_Keep is the variant that reads the handle without clearing it.
Take_Keep(o) == o
Take(o) == None

\* ------------------------------------------------------------- the Mutex
\* state.process.lock(): blocks until no thread holds the Mutex.  lock() errs
\* only on a poisoned Mutex, i.e. after a panic under the guard; no step
\* between lock() and the return panics, so that branch is never taken.
LockFree_NoExclusion == TRUE
LockFree == lock = NoThread

\* Variant of Return that leaves the Mutex locked (the guard is leaked).
Return_KeepsLock(t, op, kind, pid, running) ==
    /\ pc' = [pc EXCEPT ![t] = "idle"]
    /\ lock' = lock
    /\ command' = [command EXCEPT ![t] = None]
    /\ child' = [child EXCEPT ![t] = None]
    /\ entry' = [entry EXCEPT ![t] = None]
    /\ ret' = [op |-> op, kind |-> kind, pid |-> pid, running |-> running]

\* The guard is dropped when the command returns.
Return(t, op, kind, pid, running) ==
    /\ pc' = [pc EXCEPT ![t] = "idle"]
    /\ lock' = IF lock = t THEN NoThread ELSE lock
    /\ command' = [command EXCEPT ![t] = None]
    /\ child' = [child EXCEPT ![t] = None]
    /\ entry' = [entry EXCEPT ![t] = None]
    /\ ret' = [op |-> op, kind |-> kind, pid |-> pid, running |-> running]

\* The history of a command that changed nothing.
SameHistory == UNCHANGED <<lastChange, startsSinceOkStop, startsSinceStop>>

\* ------------------------------------------------- the UI issues a command
CallStart(t) ==
    /\ pc[t] = "idle"
    /\ pc' = [pc EXCEPT ![t] = "s_lock"]
    /\ UNCHANGED <<process, lock, command, child, entry, procs, ret>>
    /\ SameHistory
    /\ UNCHANGED rvars

CallStop(t) ==
    /\ pc[t] = "idle"
    /\ pc' = [pc EXCEPT ![t] = "t_lock"]
    /\ UNCHANGED <<process, lock, command, child, entry, procs, ret>>
    /\ SameHistory
    /\ UNCHANGED rvars

CallStatus(t) ==
    /\ pc[t] = "idle"
    /\ pc' = [pc EXCEPT ![t] = "st_lock"]
    /\ UNCHANGED <<process, lock, command, child, entry, procs, ret>>
    /\ SameHistory
    /\ UNCHANGED rvars

\* ------------------------------------------------ start_claude_code_server
\* Line 22: let mut process_guard = state.process.lock()
StartLock(t) ==
    /\ pc[t] = "s_lock"
    /\ LockFree
    /\ lock' = t
    /\ entry' = [entry EXCEPT ![t] = process]
    /\ pc' = [pc EXCEPT ![t] = "s_check"]
    /\ UNCHANGED <<process, command, child, procs, ret>>
    /\ SameHistory
    /\ UNCHANGED rvars

\* Variant of StartRejected that empties the slot while testing it (take()).
StartRejected_Takes(t) ==
    /\ pc[t] = "s_check"
    /\ HandlePresent(process)
    /\ process' = None
    /\ Return(t, "start", "AlreadyRunning", 0, FALSE)
    /\ UNCHANGED procs
    /\ SameHistory
    /\ UNCHANGED rvars

\* Lines 24-26: if process_guard.is_some() { return Err(already running) }
StartRejected(t) ==
    /\ pc[t] = "s_check"
    /\ HandlePresent(process)
    /\ Return(t, "start", "AlreadyRunning", 0, FALSE)
    /\ UNCHANGED <<process, procs>>
    /\ SameHistory
    /\ UNCHANGED rvars

\* Variant of StartAdmitted that drops the guard once the check has passed.
StartAdmitted_Unlocks(t) ==
    /\ pc[t] = "s_check"
    /\ ~HandlePresent(process)
    /\ lock' = NoThread
    /\ pc' = [pc EXCEPT ![t] = "s_sidecar"]
    /\ UNCHANGED <<process, command, child, entry, procs, ret>>
    /\ SameHistory
    /\ UNCHANGED rvars

\* Line 24: the handle is absent, start goes on with the guard still held.
StartAdmitted(t) ==
    /\ pc[t] = "s_check"
    /\ ~HandlePresent(process)
    /\ pc' = [pc EXCEPT ![t] = "s_sidecar"]
    /\ UNCHANGED <<process, lock, command, child, entry, procs, ret>>
    /\ SameHistory
    /\ UNCHANGED rvars

\* Lines 28-40: app.shell().sidecar(..) succeeds and the arguments are added.
StartSidecarOk(t) ==
    /\ pc[t] = "s_sidecar"
    /\ \E executable_path \in ExecutablePaths :
           command' = [command EXCEPT ![t] = Some(CommandArgs(executable_path))]
    /\ pc' = [pc EXCEPT ![t] = "s_spawn"]
    /\ UNCHANGED <<process, lock, child, entry, procs, ret>>
    /\ SameHistory
    /\ UNCHANGED rvars

\* Line 31: sidecar(..) fails, the ? returns the error.
StartSidecarFail(t) ==
    /\ pc[t] = "s_sidecar"
    /\ Return(t, "start", "SidecarFailure", 0, FALSE)
    /\ UNCHANGED <<process, procs>>
    /\ SameHistory
    /\ UNCHANGED rvars

\* Lines 42-44: command.spawn() succeeds: one new OS process.
StartSpawnOk(t) ==
    /\ pc[t] = "s_spawn"
    /\ Len(procs) < MaxSpawns
    /\ procs' = Append(procs, [st |-> "alive", kills |-> 0])
    /\ child' = [child EXCEPT ![t] = Some(Len(procs) + 1)]
    /\ pc' = [pc EXCEPT ![t] = "s_store"]
    /\ UNCHANGED <<process, lock, command, entry, ret>>
    /\ SameHistory
    /\ UNCHANGED rvars

\* Line 44: spawn() fails, the ? returns the error.
StartSpawnFail(t) ==
    /\ pc[t] = "s_spawn"
    /\ Return(t, "start", "SpawnFailure", 0, FALSE)
    /\ UNCHANGED <<process, procs>>
    /\ SameHistory
    /\ UNCHANGED rvars

\* Lines 46-49: *process_guard = Some(child); Ok(pid)
StartStore(t) ==
    /\ pc[t] = "s_store"
    /\ process' = child[t]
    /\ Return(t, "start", "Ok", Unwrap(child[t]), FALSE)
    /\ lastChange' = "start"
    /\ startsSinceOkStop' = Min(startsSinceOkStop + 1, 2)
    /\ startsSinceStop' = Min(startsSinceStop + 1, 2)
    /\ UNCHANGED procs
    /\ UNCHANGED rvars

\* ------------------------------------------------- stop_claude_code_server
\* Line 56: let mut process_guard = state.process.lock()
StopLock(t) ==
    /\ pc[t] = "t_lock"
    /\ LockFree
    /\ lock' = t
    /\ entry' = [entry EXCEPT ![t] = process]
    /\ pc' = [pc EXCEPT ![t] = "t_take"]
    /\ UNCHANGED <<process, command, child, procs, ret>>
    /\ SameHistory
    /\ UNCHANGED rvars

\* Variant of StopTakeNone that reports an error when nothing runs.
StopTakeNone_Errs(t) ==
    /\ pc[t] = "t_take"
    /\ ~IsSome(process)
    /\ process' = Take(process)
    /\ Return(t, "stop", "NotRunning", 0, FALSE)
    /\ UNCHANGED procs
    /\ SameHistory
    /\ UNCHANGED rvars

\* Lines 58, 62: take() yields None: nothing to kill, Ok(()).
StopTakeNone(t) ==
    /\ pc[t] = "t_take"
    /\ ~IsSome(process)
    /\ process' = Take(process)
    /\ Return(t, "stop", "Ok", 0, FALSE)
    /\ lastChange' = "stop"
    /\ startsSinceOkStop' = 0
    /\ startsSinceStop' = 0
    /\ UNCHANGED procs
    /\ UNCHANGED rvars

\* Line 58: take() yields Some(child): the handle moves to the local `child`.
StopTakeSome(t) ==
    /\ pc[t] = "t_take"
    /\ IsSome(process)
    /\ child' = [child EXCEPT ![t] = process]
    /\ process' = Take(process)
    /\ pc' = [pc EXCEPT ![t] = "t_kill"]
    /\ UNCHANGED <<lock, command, entry, procs, ret>>
    /\ SameHistory
    /\ UNCHANGED rvars

\* The OS process table after a kill request on pid p that the OS honours
\* (ok) or refuses (~ok).  Killing a process that already exited changes nothing.
Killed(p, ok) ==
    [procs EXCEPT ![p] = [@ EXCEPT !.st = IF ok /\ @ = "alive" THEN "killed" ELSE @,
                                   !.kills = Min(@ + 1, 2)]]

\* Lines 59, 62: child.kill() succeeds, Ok(()).
StopKillOk(t) ==
    /\ pc[t] = "t_kill"
    /\ procs' = Killed(Unwrap(child[t]), TRUE)
    /\ Return(t, "stop", "Ok", 0, FALSE)
    /\ lastChange' = "stop"
    /\ startsSinceOkStop' = 0
    /\ startsSinceStop' = 0
    /\ UNCHANGED process
    /\ UNCHANGED rvars

\* Variant of StopKillFail that puts the handle back when the kill fails.
StopKillFail_Restores(t) ==
    /\ pc[t] = "t_kill"
    /\ procs' = Killed(Unwrap(child[t]), FALSE)
    /\ process' = child[t]
    /\ Return(t, "stop", "KillFailure", 0, FALSE)
    /\ SameHistory
    /\ UNCHANGED rvars

\* Line 59: child.kill() fails, the ? returns the error; the taken handle is dropped.
StopKillFail(t) ==
    /\ pc[t] = "t_kill"
    /\ procs' = Killed(Unwrap(child[t]), FALSE)
    /\ Return(t, "stop", "KillFailure", 0, FALSE)
    /\ lastChange' = "stop"
    /\ startsSinceStop' = 0
    /\ UNCHANGED <<process, startsSinceOkStop>>
    /\ UNCHANGED rvars

\* ------------------------------------------- get_claude_code_server_status
\* Line 69: let process_guard = state.process.lock()
StatusLock(t) ==
    /\ pc[t] = "st_lock"
    /\ LockFree
    /\ lock' = t
    /\ entry' = [entry EXCEPT ![t] = process]
    /\ pc' = [pc EXCEPT ![t] = "st_read"]
    /\ UNCHANGED <<process, command, child, procs, ret>>
    /\ SameHistory
    /\ UNCHANGED rvars

\* Line 70: Ok(process_guard.is_some())
StatusRead(t) ==
    /\ pc[t] = "st_read"
    /\ Return(t, "status", "Ok", 0, HandlePresent(process))
    /\ UNCHANGED <<process, procs>>
    /\ SameHistory
    /\ UNCHANGED rvars

\* ------------------------------------------------------- the environment
\* The spawned sidecar exits on its own; no code of the supervisor runs.
Crash(p) ==
    /\ p \in 1..Len(procs)
    /\ procs[p].st = "alive"
    /\ procs' = [procs EXCEPT ![p].st = "exited"]
    /\ UNCHANGED <<process, lock, pc, command, child, entry, ret>>
    /\ SameHistory
    /\ UNCHANGED rvars

\* =================================================== executable resolver
\* Text is a sequence of characters.  Chars holds one visible character and
\* the two kinds of white space that matter: a blank and a line break.
Chars == {"a", " ", "\n"}
WhiteSpace == {" ", "\n"}
Outputs == UNION {[1..n -> Chars] : n \in 0..MaxOut}

\* Paths a caller hands to check_claude_code_path: empty, plain, and one
\* that trimming would change.
CheckPaths == {<<>>, <<"a">>, <<" ", "a">>}

\* Line 188: Duration::from_secs(5), and line 207: Duration::from_millis(100).
TimeoutMillis == 5000
PollMillis == 100

\* thread::sleep(100 ms) returns after one interval, or oversleeps by one more.
OversleepFactors == {1, 2}

\* str::trim (lines 107 and 196).
RECURSIVE TrimStart(_)
TrimStart(s) ==
    IF s # <<>> /\ Head(s) \in WhiteSpace THEN TrimStart(Tail(s)) ELSE s

RECURSIVE TrimEnd(_)
TrimEnd(s) ==
    IF s # <<>> /\ s[Len(s)] \in WhiteSpace
    THEN TrimEnd(SubSeq(s, 1, Len(s) - 1))
    ELSE s

Trim(s) == TrimEnd(TrimStart(s))

\* Lines 104-106: .lines().next().unwrap_or("")
RECURSIVE FirstLine(_)
FirstLine(s) ==
    IF s = <<>> \/ Head(s) = "\n" THEN <<>> ELSE <<Head(s)>> \o FirstLine(Tail(s))

\* Variant of Candidate that forgets to trim the line.
Candidate_NoTrim(stdout) == FirstLine(stdout)

\* Lines 103-108: the candidate path taken from the lookup's standard output.
Candidate(stdout) == Trim(FirstLine(stdout))

\* Lines 111-116 and 128-133.
NotFound ==
    [found |-> FALSE, path |-> None, version |-> None,
     error |-> Some("Claude Code not found in system PATH")]

\* Lines 134-139.
SearchFailed ==
    [found |-> FALSE, path |-> None, version |-> None,
     error |-> Some("Failed to search for Claude Code")]

\* Lines 119-125: the descriptor of find_claude_code_path once a path is found.
FindResult(path, version) ==
    [found |-> TRUE, path |-> Some(path), version |-> version, error |-> None]

\* Variant of CheckMissing that echoes the path trimmed.
CheckMissing_Trimmed(path) ==
    [found |-> FALSE, path |-> Some(Trim(path)), version |-> None,
     error |-> Some("File does not exist")]

\* Lines 148-153.
CheckMissing(path) ==
    [found |-> FALSE, path |-> Some(path), version |-> None,
     error |-> Some("File does not exist")]

\* Lines 157-170: the descriptor of check_claude_code_path after the probe.
CheckResult(path, version) ==
    IF IsSome(version)
    THEN [found |-> TRUE, path |-> Some(path), version |-> version, error |-> None]
    ELSE [found |-> FALSE, path |-> Some(path), version |-> None,
          error |-> Some("File exists but does not appear to be Claude Code (could not get version)")]

\* Variant of TimedOut that waits twice as long.
TimedOut_Late(elapsed) == elapsed > 2 * TimeoutMillis

\* Line 202: start.elapsed() > timeout
TimedOut(elapsed) == elapsed > TimeoutMillis

\* A resolver command returns its descriptor.
RReturn(descriptor) ==
    /\ rret' = Some(descriptor)
    /\ rpc' = "idle"

\* get_claude_version returns `version` along return path `path_taken`, and
\* the calling command builds its descriptor from it (lines 119-125, 157-170).
ProbeReturn(version, path_taken) ==
    /\ pres' = version
    /\ pend' = path_taken
    /\ RReturn(IF rop = "find" THEN FindResult(rpath, version)
                               ELSE CheckResult(rpath, version))

\* ------------------------------------------------- the UI issues a command
CallFind ==
    /\ rpc = "idle"
    /\ rlook' = "none"
    /\ rpc' = "f_lookup"
    /\ rop' = "find"
    /\ rpath' = <<>>
    /\ pchild' = "none" /\ now' = 0 /\ polls' = 0 /\ pkills' = 0
    /\ pend' = "none" /\ pres' = None /\ rret' = None
    /\ UNCHANGED vars

CallCheck ==
    /\ rpc = "idle"
    /\ rlook' = "none"
    /\ rpc' = "c_exists"
    /\ rop' = "check"
    /\ \E path \in CheckPaths : rpath' = path
    /\ pchild' = "none" /\ now' = 0 /\ polls' = 0 /\ pkills' = 0
    /\ pend' = "none" /\ pres' = None /\ rret' = None
    /\ UNCHANGED vars

\* --------------------------------------------------- find_claude_code_path
\* Lines 97-99, 134-139: `which claude` could not be run.
FindLookupErr ==
    /\ rpc = "f_lookup"
    /\ rlook' = "err"
    /\ RReturn(SearchFailed)
    /\ UNCHANGED <<rop, rpath, pchild, now, polls, pkills, pend, pres>>
    /\ UNCHANGED vars

\* Lines 128-133: the lookup exited with a failure status.
FindLookupFail ==
    /\ rpc = "f_lookup"
    /\ rlook' = "fail"
    /\ RReturn(NotFound)
    /\ UNCHANGED <<rop, rpath, pchild, now, polls, pkills, pend, pres>>
    /\ UNCHANGED vars

\* Lines 102-116: the lookup succeeded but its first line is empty.
FindLookupEmpty ==
    /\ rpc = "f_lookup"
    /\ rlook' = "empty"
    /\ \E stdout \in Outputs : Candidate(stdout) = <<>>
    /\ RReturn(NotFound)
    /\ UNCHANGED <<rop, rpath, pchild, now, polls, pkills, pend, pres>>
    /\ UNCHANGED vars

\* Lines 102-119: the lookup succeeded and names a path; the probe is called.
FindLookupFound ==
    /\ rpc = "f_lookup"
    /\ rlook' = "found"
    /\ \E stdout \in Outputs :
          /\ Candidate(stdout) # <<>>
          /\ rpath' = Candidate(stdout)
    /\ rpc' = "v_spawn"
    /\ UNCHANGED <<rop, pchild, now, polls, pkills, pend, pres, rret>>
    /\ UNCHANGED vars

\* -------------------------------------------------- check_claude_code_path
\* Lines 146-154: the path does not exist (the empty path never does).
CheckNoFile ==
    /\ rpc = "c_exists"
    /\ rlook' = "missing"
    /\ RReturn(CheckMissing(rpath))
    /\ UNCHANGED <<rop, rpath, pchild, now, polls, pkills, pend, pres>>
    /\ UNCHANGED vars

\* Lines 147, 157: the path exists; the probe is called.
CheckFileExists ==
    /\ rpc = "c_exists"
    /\ rlook' = "exists"
    /\ rpath # <<>>
    /\ rpc' = "v_spawn"
    /\ UNCHANGED <<rop, rpath, pchild, now, polls, pkills, pend, pres, rret>>
    /\ UNCHANGED vars

\* ------------------------------------------------------ get_claude_version
\* Lines 178-184: spawn() fails, .ok()? returns None.
ProbeSpawnFail ==
    /\ rpc = "v_spawn"
    /\ ProbeReturn(None, "spawn_fail")
    /\ UNCHANGED <<rop, rlook, rpath, pchild, now, polls, pkills>>
    /\ UNCHANGED vars

\* Variant of ProbeSpawnOk that runs the probe under the supervisor's Mutex.
ProbeSpawnOk_UnderLock ==
    /\ rpc = "v_spawn"
    /\ LockFree
    /\ lock' = NumThreads + 1
    /\ pchild' = "running"
    /\ now' = 0
    /\ rpc' = "v_poll"
    /\ UNCHANGED <<rop, rlook, rpath, polls, pkills, pend, pres, rret>>
    /\ UNCHANGED <<process, pc, command, child, entry, procs, ret>>
    /\ SameHistory

\* Lines 178-188: the child is spawned and the clock started.
ProbeSpawnOk ==
    /\ rpc = "v_spawn"
    /\ pchild' = "running"
    /\ now' = 0
    /\ rpc' = "v_poll"
    /\ UNCHANGED <<rop, rlook, rpath, polls, pkills, pend, pres, rret>>
    /\ UNCHANGED vars

\* Lines 191-196: try_wait() sees a successful exit; the output is collected.
PollExitedOk ==
    /\ rpc = "v_poll"
    /\ pchild = "exited_ok"
    /\ polls' = polls + 1
    /\ \E stdout \in Outputs : ProbeReturn(Some(Trim(stdout)), "version")
    /\ UNCHANGED <<rop, rlook, rpath, pchild, now, pkills>>
    /\ UNCHANGED vars

\* Line 194: wait_with_output() fails, .ok()? returns None.
PollExitedOkNoOutput ==
    /\ rpc = "v_poll"
    /\ pchild = "exited_ok"
    /\ polls' = polls + 1
    /\ ProbeReturn(None, "output_err")
    /\ UNCHANGED <<rop, rlook, rpath, pchild, now, pkills>>
    /\ UNCHANGED vars

\* Variant of PollExitedFail that collects the output whatever the status.
PollExitedFail_IgnoresStatus ==
    /\ rpc = "v_poll"
    /\ pchild = "exited_fail"
    /\ polls' = polls + 1
    /\ \E stdout \in Outputs : ProbeReturn(Some(Trim(stdout)), "exit_fail")
    /\ UNCHANGED <<rop, rlook, rpath, pchild, now, pkills>>
    /\ UNCHANGED vars

\* Lines 192-199: try_wait() sees an exit with a failure status.
PollExitedFail ==
    /\ rpc = "v_poll"
    /\ pchild = "exited_fail"
    /\ polls' = polls + 1
    /\ ProbeReturn(None, "exit_fail")
    /\ UNCHANGED <<rop, rlook, rpath, pchild, now, pkills>>
    /\ UNCHANGED vars

\* Lines 201-207: the child still runs and the deadline has not passed.
PollRunning ==
    /\ rpc = "v_poll"
    /\ pchild = "running"
    /\ ~TimedOut(now)
    /\ polls' = polls + 1
    /\ rpc' = "v_sleep"
    /\ UNCHANGED <<rop, rlook, rpath, pchild, now, pkills, pend, pres, rret>>
    /\ UNCHANGED vars

\* Lines 201-205: the child still runs past the deadline; kill() succeeds.
PollTimeoutKillOk ==
    /\ rpc = "v_poll"
    /\ pchild = "running"
    /\ TimedOut(now)
    /\ polls' = polls + 1
    /\ pkills' = pkills + 1
    /\ pchild' = "killed"
    /\ ProbeReturn(None, "timeout")
    /\ UNCHANGED <<rop, rlook, rpath, now>>
    /\ UNCHANGED vars

\* Lines 201-205: the same, but kill() fails; `let _ =` drops the error.
PollTimeoutKillFail ==
    /\ rpc = "v_poll"
    /\ pchild = "running"
    /\ TimedOut(now)
    /\ polls' = polls + 1
    /\ pkills' = pkills + 1
    /\ ProbeReturn(None, "timeout")
    /\ UNCHANGED <<rop, rlook, rpath, pchild, now>>
    /\ UNCHANGED vars

\* Variant of PollErr that kills the child before giving up.
PollErr_Kills ==
    /\ rpc = "v_poll"
    /\ pchild \in {"running", "exited_ok", "exited_fail"}
    /\ polls' = polls + 1
    /\ pkills' = pkills + 1
    /\ pchild' = IF pchild = "running" THEN "killed" ELSE pchild
    /\ ProbeReturn(None, "wait_err")
    /\ UNCHANGED <<rop, rlook, rpath, now>>
    /\ UNCHANGED vars

\* Line 209: try_wait() itself fails.
PollErr ==
    /\ rpc = "v_poll"
    /\ pchild \in {"running", "exited_ok", "exited_fail"}
    /\ polls' = polls + 1
    /\ ProbeReturn(None, "wait_err")
    /\ UNCHANGED <<rop, rlook, rpath, pchild, now, pkills>>
    /\ UNCHANGED vars

\* Line 207: std::thread::sleep(Duration::from_millis(100))
Sleep ==
    /\ rpc = "v_sleep"
    /\ \E k \in OversleepFactors : now' = now + k * PollMillis
    /\ rpc' = "v_poll"
    /\ UNCHANGED <<rop, rlook, rpath, pchild, polls, pkills, pend, pres, rret>>
    /\ UNCHANGED vars

\* The probe child exits on its own, with success or with a failure status.
ChildExit ==
    /\ pchild = "running"
    /\ \E st \in {"exited_ok", "exited_fail"} : pchild' = st
    /\ UNCHANGED <<rpc, rop, rlook, rpath, now, polls, pkills, pend, pres, rret>>
    /\ UNCHANGED vars

RNext ==
    \/ CallFind
    \/ CallCheck
    \/ FindLookupErr
    \/ FindLookupFail
    \/ FindLookupEmpty
    \/ FindLookupFound
    \/ CheckNoFile
    \/ CheckFileExists
    \/ ProbeSpawnFail
    \/ ProbeSpawnOk
    \/ PollExitedOk
    \/ PollExitedOkNoOutput
    \/ PollExitedFail
    \/ PollRunning
    \/ PollTimeoutKillOk
    \/ PollTimeoutKillFail
    \/ PollErr
    \/ Sleep
    \/ ChildExit

ResolverSpec == Init /\ [][RNext]_allvars

\* The steps get_claude_version takes by itself: its thread keeps running and
\* its sleep returns as the clock advances.  The child owes no step.
ProbeStep ==
    \/ ProbeSpawnFail
    \/ ProbeSpawnOk
    \/ PollExitedOk
    \/ PollExitedOkNoOutput
    \/ PollExitedFail
    \/ PollRunning
    \/ PollTimeoutKillOk
    \/ PollTimeoutKillFail
    \/ PollErr
    \/ Sleep

ResolverFairSpec == ResolverSpec /\ WF_allvars(ProbeStep)

\* ------------------------------------- resolver next to the supervisor
\* Three states of the supervisor that Spec reaches: a helper running and the
\* Mutex free; thread 1 inside a slow spawn(); thread 1 inside a slow kill().
\* In the last two thread 1 holds the Mutex for as long as the call lasts.
Helper == <<[st |-> "alive", kills |-> 0]>>
StartedRet == [op |-> "start", kind |-> "Ok", pid |-> 1, running |-> FALSE]

SupervisorRunning ==
    /\ process = Some(1)
    /\ lock = NoThread
    /\ pc = [t \in Threads |-> "idle"]
    /\ command = [t \in Threads |-> None]
    /\ child = [t \in Threads |-> None]
    /\ entry = [t \in Threads |-> None]
    /\ procs = Helper
    /\ ret = StartedRet
    /\ lastChange = "start"
    /\ startsSinceOkStop = 1
    /\ startsSinceStop = 1

SupervisorSpawning ==
    /\ process = None
    /\ lock = 1
    /\ pc = [t \in Threads |-> IF t = 1 THEN "s_spawn" ELSE "idle"]
    /\ command = [t \in Threads |-> IF t = 1 THEN Some(<<>>) ELSE None]
    /\ child = [t \in Threads |-> None]
    /\ entry = [t \in Threads |-> None]
    /\ procs = <<>>
    /\ ret = NoRet
    /\ lastChange = "none"
    /\ startsSinceOkStop = 0
    /\ startsSinceStop = 0

SupervisorKilling ==
    /\ process = None
    /\ lock = 1
    /\ pc = [t \in Threads |-> IF t = 1 THEN "t_kill" ELSE "idle"]
    /\ command = [t \in Threads |-> None]
    /\ child = [t \in Threads |-> IF t = 1 THEN Some(1) ELSE None]
    /\ entry = [t \in Threads |-> IF t = 1 THEN Some(1) ELSE None]
    /\ procs = Helper
    /\ ret = StartedRet
    /\ lastChange = "start"
    /\ startsSinceOkStop = 1
    /\ startsSinceStop = 1

FrameInit ==
    /\ \/ SupervisorRunning
       \/ SupervisorSpawning
       \/ SupervisorKilling
    /\ ResolverInit

\* The thread that asks for the status while the resolver works.
Observer == NumThreads

FrameNext ==
    \/ RNext
    \/ CallStatus(Observer)
    \/ StatusLock(Observer)
    \/ StatusRead(Observer)

FrameSpec == FrameInit /\ [][FrameNext]_allvars

\* ------------------------------------------------------------ properties
Pids == 1..Len(procs)
Alive == {p \in Pids : procs[p].st = "alive"}
Waiting == {"idle", "s_lock", "t_lock", "st_lock"}
PastCheck == {"s_sidecar", "s_spawn", "s_store"}

\* C1 as stated: between two starts that return a process id there is a stop
\* that returned success, i.e. at most one start has returned Ok since the
\* last stop that returned Ok.
C1_StartTwiceNeedsOkStop == startsSinceOkStop <= 1

\* C1 amended: between two starts that return a process id there is a stop
\* call that returned, with success or with a kill failure.
C1_StartTwiceNeedsStop == startsSinceStop <= 1

C1_Witness ==
    /\ ret.op = "start" /\ ret.kind = "AlreadyRunning"
    /\ startsSinceStop = 1
    /\ Len(procs) = 2

\* C2 as stated: at most one helper process spawned by start is alive.
C2_AtMostOneAlive == Cardinality(Alive) <= 1

\* C2 amended: at most one helper process is alive without a kill having been
\* requested on it, and the slot holds at most that one.
C2_AtMostOneAliveUnkilled ==
    /\ Cardinality({p \in Alive : procs[p].kills = 0}) <= 1
    /\ \A p \in Alive : procs[p].kills = 0 =>
           \/ process = Some(p)
           \/ \E t \in Threads : child[t] = Some(p) /\ lock = t

C2_Witness ==
    /\ Cardinality(Alive) = 2
    /\ IsSome(process)
    /\ \E p \in Alive : procs[p].kills = 1

\* C3: the check of the slot and the store into it are one critical section:
\* a start past its check holds the lock, saw the slot empty, still finds it
\* empty, and is the only command past its lock() call.
C3_CheckAndStoreAtomic ==
    \A t \in Threads : pc[t] \in PastCheck =>
        /\ lock = t
        /\ entry[t] = None
        /\ process = None
        /\ \A u \in Threads \ {t} : pc[u] \in Waiting

C3_Witness ==
    \E t, u \in Threads :
        /\ pc[t] = "s_store"
        /\ pc[u] = "s_lock"
        /\ lastChange # "start"

\* C4: a start that returns an error leaves the slot as it was when the call
\* took the lock, and leaves the OS processes as they were.
C4_FailedStartKeepsState ==
    [][\A t \in Threads :
          (pc[t] \in {"s_check", "s_sidecar", "s_spawn"} /\ pc'[t] = "idle") =>
              /\ ret'.kind \in {"AlreadyRunning", "SidecarFailure", "SpawnFailure"}
              /\ process' = entry[t]
              /\ procs' = procs]_vars

C4_Witness ==
    /\ ret.op = "start" /\ ret.kind = "AlreadyRunning"
    /\ IsSome(process)
    /\ lock = NoThread

\* C5: stop empties the slot before it requests the kill, and the slot is
\* empty once stop has returned, with success or with a kill failure, so
\* neither status nor the check of start finds a handle.
C5_StopAlwaysClears ==
    /\ \A t \in Threads : pc[t] = "t_kill" => ~HandlePresent(process)
    /\ ret.op = "stop" => ~HandlePresent(process)

C5_Witness ==
    /\ ret.op = "stop" /\ ret.kind = "KillFailure"
    /\ process = None
    /\ Alive # {}

\* C6: a stop that finds the slot empty returns Ok, requests no kill and
\* leaves the slot empty.
C6_StopIdempotent ==
    [][\A t \in Threads :
          (pc[t] = "t_take" /\ ~IsSome(process) /\ pc'[t] # "t_take") =>
              /\ pc'[t] = "idle"
              /\ ret'.op = "stop" /\ ret'.kind = "Ok"
              /\ process' = None
              /\ procs' = procs]_vars

C6_Witness ==
    /\ ret.op = "stop" /\ ret.kind = "Ok"
    /\ lastChange = "stop"
    /\ procs = <<>>

\* C7: status returns true exactly when the last start that returned Ok has
\* not been followed by a stop call that returned; the slot agrees whenever
\* no command is in its critical section.
C7_StatusReflectsLastChange ==
    /\ ret.op = "status" => (ret.running <=> lastChange = "start")
    /\ lock = NoThread => (IsSome(process) <=> lastChange = "start")

C7_Witness ==
    /\ ret.op = "status" /\ ~ret.running
    /\ lastChange = "stop"
    /\ Len(procs) > 0

\* C8: while the slot holds the handle of a process that has exited on its
\* own, status returns true and start is rejected; the slot is emptied only
\* by the take of a stop.
C8_CrashNotObserved ==
    [][/\ \A t \in Threads :
            (IsSome(process) /\ procs[Unwrap(process)].st = "exited") =>
                /\ (pc[t] = "st_read" /\ pc'[t] = "idle") => ret'.running
                /\ (pc[t] = "s_check" /\ pc'[t] # "s_check") =>
                       (pc'[t] = "idle" /\ ret'.kind = "AlreadyRunning")
       /\ (IsSome(process) /\ process' # process) =>
              \E t \in Threads : pc[t] = "t_take" /\ pc'[t] = "t_kill"]_vars

C8_Witness ==
    /\ IsSome(process)
    /\ procs[Unwrap(process)].st = "exited"
    /\ ret.op = "status" /\ ret.running

\* C9 as stated: no start is in its spawn step and no stop in its kill step
\* while holding the lock.
C9_NoLockAcrossSyscall ==
    \A t \in Threads : pc[t] \in {"s_spawn", "t_kill"} => lock # t

\* C9 amended: the lock is held from lock() to the return, the spawn step of
\* start and the kill step of stop included, so every other command is idle
\* or waiting for the lock meanwhile.
C9_LockHeldAcrossSyscall ==
    \A t \in Threads : pc[t] \in {"s_spawn", "t_kill"} =>
        /\ lock = t
        /\ \A u \in Threads \ {t} : pc[u] \in Waiting

C9_Witness ==
    \E t, u \in Threads :
        /\ pc[t] = "s_spawn"
        /\ pc[u] = "st_lock"
        /\ lock = t

\* C10: of the stops issued while a handle is stored, one takes it and
\* requests its kill; no handle has its kill requested twice, and no two
\* stops hold the same handle.
C10_NoDoubleKill ==
    /\ \A p \in Pids : procs[p].kills <= 1
    /\ \A t, u \in Threads : (t # u /\ IsSome(child[t])) => child[t] # child[u]
    /\ \A t \in Threads : pc[t] = "t_kill" => procs[Unwrap(child[t])].kills = 0

C10_Witness ==
    \E t, u \in Threads :
        /\ pc[t] = "t_kill"
        /\ pc[u] = "t_lock"
        /\ procs[Unwrap(child[t])].kills = 0

\* ------------------------------------------- properties of the resolver
Returned == rpc = "idle" /\ IsSome(rret)
ProbeReturned == rpc = "idle" /\ pend # "none"

\* C11: whenever find's lookup names a path and the version probe fails,
\* find reports found = FALSE; found = TRUE needs a version from the probe.
C11_FindNeedsVersion ==
    (Returned /\ rop = "find" /\ rlook = "found") =>
        (Unwrap(rret).found <=> IsSome(pres))

\* C12: every descriptor returned by find or check has found = TRUE with a
\* version and no error, or found = FALSE with an error and no version.
C12_DescriptorWellFormed ==
    Returned =>
        /\ Unwrap(rret).found =>
              (IsSome(Unwrap(rret).version) /\ ~IsSome(Unwrap(rret).error))
        /\ ~Unwrap(rret).found =>
              (IsSome(Unwrap(rret).error) /\ ~IsSome(Unwrap(rret).version))

\* C13: check on a path that does not exist (the empty path never exists)
\* returns found = FALSE, no version, error "File does not exist" and the
\* supplied path, without a probe child; every descriptor of check carries
\* the supplied path.
C13_CheckMissingFile ==
    (Returned /\ rop = "check") =>
        /\ Unwrap(rret).path = Some(rpath)
        /\ rpath = <<>> => rlook = "missing"
        /\ rlook = "missing" =>
              /\ ~Unwrap(rret).found
              /\ Unwrap(rret).version = None
              /\ Unwrap(rret).error = Some("File does not exist")
              /\ pchild = "none" /\ polls = 0 /\ pend = "none"

C13_Witness ==
    /\ Returned /\ rop = "check"
    /\ rpath = <<" ", "a">>
    /\ rlook = "missing"
    /\ Unwrap(rret).path = Some(<<" ", "a">>)

\* C14: once the version probe has returned, by whatever return path, the
\* probe child it spawned is not running.
C14_NoProbeChildLeft == ProbeReturned => pchild # "running"

\* C15 as stated: the probe returns a version exactly when a poll taken
\* within the 5 seconds saw the child exited with success.
C15_VersionIffExitWithinBound ==
    ProbeReturned =>
        (IsSome(pres) <=> (pend \in {"version", "output_err"} /\ ~TimedOut(now)))

\* C15 amended: the probe returns a version exactly when a poll saw the child
\* exited with success and the output was collected, before or after the 5
\* seconds; the value is trimmed; every other return path yields None.
C15_VersionIffExitCollected ==
    ProbeReturned =>
        /\ IsSome(pres) <=> pend = "version"
        /\ IsSome(pres) => (pchild = "exited_ok" /\ Trim(Unwrap(pres)) = Unwrap(pres))
        /\ pend = "exit_fail" => pchild = "exited_fail"
        /\ pend = "spawn_fail" => pchild = "none"
        /\ pend = "timeout" => (TimedOut(now) /\ pchild \in {"running", "killed", "exited_ok", "exited_fail"})

C15_Witness ==
    /\ ProbeReturned
    /\ pend = "version"
    /\ TimedOut(now)
    /\ pres = Some(<<"a">>)

\* C16: every call of the probe returns: it polls at most once per 100 ms
\* interval up to the 5 seconds plus the poll that sees the deadline passed,
\* it never sleeps again once a poll has seen the deadline passed, and a
\* probe in progress always comes to its return.
MaxPolls == TimeoutMillis \div PollMillis + 2

InProbe == rpc \in {"v_spawn", "v_poll", "v_sleep"}

C16_ProbeTerminates ==
    /\ [](polls <= MaxPolls /\ (rpc = "v_sleep" => ~TimedOut(now)))
    /\ (InProbe ~> rpc = "idle")

C16_Witness ==
    /\ ProbeReturned
    /\ pend = "timeout"
    /\ pchild = "running"
    /\ polls = MaxPolls

\* C17: the resolver's steps, the probe's among them, and status leave the
\* handle as it is; the Mutex is only ever held by a supervisor thread; a
\* resolver step that starts work outside the program is enabled whoever
\* holds the Mutex, and status gets a free Mutex whatever the resolver does.
C17_ResolverOutsideSupervisor ==
    /\ [][/\ rvars' # rvars => (process' = process /\ lock' = lock)
          /\ \A t \in Threads :
                (pc[t] \in {"st_lock", "st_read"} /\ pc'[t] # pc[t]) => process' = process
          /\ lock' \in Threads \cup {NoThread}]_allvars
    /\ [](/\ rpc = "f_lookup" => ENABLED FindLookupFound
          /\ (rpc = "c_exists" /\ rpath # <<>>) => ENABLED CheckFileExists
          /\ rpc = "v_spawn" => ENABLED ProbeSpawnOk
          /\ rpc = "v_sleep" => ENABLED Sleep
          /\ (pc[Observer] = "st_lock" /\ lock = NoThread) => ENABLED StatusLock(Observer))

C17_Witness ==
    /\ lock = 1 /\ pc[1] = "s_spawn"
    /\ pc[Observer] = "st_lock"
    /\ ProbeReturned /\ pend = "version"

\* C18: when find's lookup exits with a failure status or its first output
\* line is empty after trimming, find returns the not-found descriptor (no
\* path, no version) and runs no probe; a path it does probe is never blank.
C18_FindNotFound ==
    /\ (rop = "find" /\ rlook \in {"fail", "empty"}) =>
          /\ rret = Some(NotFound)
          /\ rpc = "idle"
          /\ pchild = "none" /\ polls = 0 /\ pend = "none"
    /\ (rop = "find" /\ rlook = "found") =>
          (rpath # <<>> /\ Trim(rpath) = rpath /\ \A i \in 1..Len(rpath) : rpath[i] # "\n")

C18_Witness ==
    /\ rop = "find" /\ rlook = "empty"
    /\ rret = Some(NotFound)

\* C19: every return of start, stop and status leaves the Mutex unlocked, so
\* the Mutex is held only by a thread inside its command, and, spawn() and
\* kill() returning, every command issued gets the Mutex and returns.
Critical ==
    {"s_check", "s_sidecar", "s_spawn", "s_store", "t_take", "t_kill", "st_read"}

C20_KillOnlyOnTimeout ==
    [][/\ pkills' > pkills =>
            (rpc = "v_poll" /\ pchild = "running" /\ TimedOut(now)
             /\ pkills' = 1 /\ pend' = "timeout" /\ pres' = None)
       /\ (rpc = "v_poll" /\ pchild = "exited_ok" /\ rpc' = "idle" /\ pend' # "wait_err") =>
            (pkills' = pkills /\ pend' \in {"version", "output_err"})
       /\ (rpc = "v_poll" /\ pend' = "wait_err") =>
            (pkills' = pkills /\ pres' = None /\ pchild' = pchild)]_allvars

C20_Witness ==
    /\ ProbeReturned
    /\ pend = "version" /\ IsSome(pres)
    /\ TimedOut(now)
    /\ pkills = 0

Next ==
    \/ \E t \in Threads :
        \/ CallStart(t)
        \/ CallStop(t)
        \/ CallStatus(t)
        \/ StartLock(t)
        \/ StartRejected(t)
        \/ StartAdmitted(t)
        \/ StartSidecarOk(t)
        \/ StartSidecarFail(t)
        \/ StartSpawnOk(t)
        \/ StartSpawnFail(t)
        \/ StartStore(t)
        \/ StopLock(t)
        \/ StopTakeNone(t)
        \/ StopTakeSome(t)
        \/ StopKillOk(t)
        \/ StopKillFail(t)
        \/ StatusLock(t)
        \/ StatusRead(t)
    \/ \E p \in 1..MaxSpawns : Crash(p)

Spec == Init /\ [][Next]_allvars

\* A thread waiting in lock() gets the Mutex if it is free again and again
\* (the lock hands over without starving a waiter).
LockStep(t) == StartLock(t) \/ StopLock(t) \/ StatusLock(t)

\* A thread holding the Mutex keeps running: sidecar(), spawn() and kill()
\* return, with success or with an error.
CriticalStep(t) ==
    \/ StartRejected(t)
    \/ StartAdmitted(t)
    \/ StartSidecarOk(t)
    \/ StartSidecarFail(t)
    \/ StartSpawnOk(t)
    \/ StartSpawnFail(t)
    \/ StartStore(t)
    \/ StopTakeNone(t)
    \/ StopTakeSome(t)
    \/ StopKillOk(t)
    \/ StopKillFail(t)
    \/ StatusRead(t)

FairSpec ==
    /\ Spec
    /\ \A t \in Threads : WF_allvars(CriticalStep(t)) /\ SF_allvars(LockStep(t))
====
